---- MODULE Spec2Model ----
(***************************************************************************)
(* ESP32-CAM licence plate recognition: setup(), the per-frame pipeline of *)
(* loop() (capture, detectPlate, confidence gate, detectPolygon,           *)
(* recognizeCharacters, esp_camera_fb_return), the resampling of           *)
(* preprocessImage and the greedy CTC decoder ctcBeamSearchDecode.         *)
(*                                                                         *)
(* Numbers: confidences are percentages (0.95 is 95, the gate 0.5 is 50);  *)
(* box and polygon coordinates are tenths of a pixel (width * 0.3 is       *)
(* width * 3); class probabilities are small integers, of which the        *)
(* decoder only uses the order.                                            *)
(***************************************************************************)
EXTENDS Integers, Sequences, FiniteSets, TLC

\* ------------------------------------------------------------------------
\* Bounds of the model
\* ------------------------------------------------------------------------

\* loop() iterations the model follows
MaxFrames == 3

\* timesteps of the enumerated decoder grids
MaxSeqLen == 3

\* calls of the decoder that follow one another
MaxCalls == 3

\* ------------------------------------------------------------------------
\* Program constants
\* ------------------------------------------------------------------------

\* const char* CHARACTERS = "0123456789ABCDEFGHIJKLMNOPQRSTUVWXYZ";
\* CHARACTERS[k] of the source is CHARACTERS[k + 1] here.
CHARACTERS ==
    << "0", "1", "2", "3", "4", "5", "6", "7", "8", "9",
       "A", "B", "C", "D", "E", "F", "G", "H", "I", "J", "K", "L", "M",
       "N", "O", "P", "Q", "R", "S", "T", "U", "V", "W", "X", "Y", "Z" >>

NUM_CHARACTERS == 36

\* if (plate_box.confidence < 0.5), in percent
detectionThreshold == 50

\* the corner network's gate of the design (the source has none)
rectificationThreshold == 50

\* config.fb_count = 1
fb_count == 1

\* the schema version the TensorFlow Lite library supports
TFLITE_SCHEMA_VERSION == 3

\* #define OCR_INPUT_WIDTH 128
OCR_INPUT_WIDTH == 128

\* #define OCR_INPUT_HEIGHT 64
OCR_INPUT_HEIGHT == 64

\* ------------------------------------------------------------------------
\* The frame source and the stage outputs that come from outside loop()
\* ------------------------------------------------------------------------

\* camera_fb_t *fb == NULL
NULL == [id |-> 0, width |-> 0, height |-> 0, len |-> 0]

\* The frames esp_camera_fb_get can hand out: grayscale, one byte a pixel;
\* FRAMESIZE_QVGA is 320x240, the smaller one is the sensor configured down.
FrameSizes == { <<320, 240>>, <<160, 120>> }

Frame(n, size) ==
    [id |-> n, width |-> size[1], height |-> size[2], len |-> size[1] * size[2]]

\* The confidence the detection network reports, in percent. The placeholder
\* body of detectPlate writes 0.95; the trained model that replaces it reports
\* any value ([x1, y1, x2, y2, confidence]).
DetectionConfidence == { 30, 50, 95 }

\* The confidence the corner network reports (8 coordinates + confidence), in
\* percent. detectPolygon does not read it.
PolygonConfidence == { 20, 90 }

\* detection_model_data, polygon_model_data, ocr_model_data
Models == { "detection", "polygon", "ocr" }

\* The schema versions a model asset can declare: the supported one and an
\* older one
SchemaVersions == { TFLITE_SCHEMA_VERSION, TFLITE_SCHEMA_VERSION - 1 }

\* The milliseconds millis() advances by while a stage runs
StageMillis == { 1, 2 }

\* What loop() prints as the result of an iteration. timings is
\* << stage1_time, stage2_time, stage3_time, total_time >> where the
\* "Timing Breakdown" is printed and empty where it is not.
Report(kind, plate, timings, conf) ==
    [kind |-> kind, plate |-> plate, timings |-> timings, confidence |-> conf]

\* Serial.println("Camera capture FAILED");
CaptureFailedReport == Report("CaptureFailed", "", << >>, 0)

\* Serial.println("No license plate detected");
NoPlateReport == Report("NoPlate", "", << >>, 0)

\* "=== RECOGNITION COMPLETE ===", the plate, the timing breakdown, the confidence
CompleteReport(plate, t1, t2, t3, total, conf) ==
    Report("Complete", plate, << t1, t2, t3, total >>, conf)

NoBox == [x1 |-> 0, y1 |-> 0, x2 |-> 0, y2 |-> 0, confidence |-> 0]

NoPolygon == [x |-> <<0, 0, 0, 0>>, y |-> <<0, 0, 0, 0>>]

\* detectPlate with the two x fractions exchanged
detectPlate_Swapped(f, conf) ==
    [x1 |-> f.width * 7, y1 |-> f.height * 4,
     x2 |-> f.width * 3, y2 |-> f.height * 6,
     confidence |-> conf]

\* BoundingBox detectPlate(camera_fb_t *fb), coordinates in tenths of a pixel
detectPlate(f, conf) ==
    [x1 |-> f.width * 3, y1 |-> f.height * 4,
     x2 |-> f.width * 7, y2 |-> f.height * 6,
     confidence |-> conf]

\* detectPolygon with the corners of the box's centre half: not the box itself
detectPolygon_Inset(f, box) ==
    [x |-> <<box.x1 + f.width, box.x2 - f.width, box.x2 - f.width, box.x1 + f.width>>,
     y |-> <<box.y1, box.y1, box.y2, box.y2>>]

\* detectPolygon listing the corners the other way round: top-left,
\* bottom-left, bottom-right, top-right
detectPolygon_CounterClockwise(f, box) ==
    [x |-> <<box.x1, box.x1, box.x2, box.x2>>,
     y |-> <<box.y1, box.y2, box.y2, box.y1>>]

\* Polygon detectPolygon(camera_fb_t *fb, BoundingBox box)
detectPolygon(f, box) ==
    [x |-> <<box.x1, box.x2, box.x2, box.x1>>,
     y |-> <<box.y1, box.y1, box.y2, box.y2>>]

\* String recognizeCharacters(camera_fb_t *fb, Polygon poly)
recognizeCharacters(f, poly) == "ABC1234"

VARIABLES
    pc,             \* where loop() stands: Capturing, Detecting, Rectifying,
                    \* Recognizing, Done
    fb,             \* camera_fb_t *fb of the running iteration
    plate_box,      \* BoundingBox plate_box
    plate_polygon,  \* Polygon plate_polygon
    plate_number,   \* String plate_number
    corner_conf,    \* confidence of the corner network for this frame
    outcome,        \* how the iteration ended: None, NoFrame, NotFound, Recognized
    calls,          \* stage calls made in this iteration, in order
    returns,        \* esp_camera_fb_return calls made in this iteration
    lent,           \* frame buffers the driver has handed out and not got back
    acquired,       \* frames handed out since start
    iterations,     \* loop() calls that have returned
    now,            \* what millis() returns
    total_start,    \* uint32_t total_start
    stage1_time,    \* uint32_t stage1_time
    stage2_time,    \* uint32_t stage2_time
    stage3_time,    \* uint32_t stage3_time
    total_time,     \* uint32_t total_time
    reports,        \* the results this iteration has printed, in order
    events,         \* what this iteration has done with the frame, in order:
                    \* read (of its fields), the stage calls, return
    \* ---- setup()
    spc,            \* where setup() stands: CameraInit, LoadDetection,
                    \* LoadPolygon, LoadOcr, Returned
    setup_result,   \* Running, CameraFailed, ModelLoadFailed, Ready
    camera_ok,      \* esp_camera_init returned ESP_OK
    version,        \* model->version() of the three model assets
    interpreter,    \* the three MicroInterpreter pointers: null, constructed
                    \* (on tensor_arena), allocated (AllocateTensors succeeded)
    tensors,        \* the input and output tensor pointers are set
    \* ---- preprocessImage
    src,            \* camera_fb_t *fb of the call
    py,             \* int y of the outer for loop
    input_buffer,   \* float *input_buffer: the elements written so far, as
                    \* numerators over 255
    written,        \* the indices of input_buffer written so far, in order
    ppc,            \* Idle, Called, Loop, Returned
    \* ---- ctcBeamSearchDecode
    predictions,    \* float* predictions, flat, row i at i * num_classes
    seq_len,        \* int seq_len
    num_classes,    \* int num_classes
    i,              \* int i of the for loop
    prev_class,     \* int prev_class
    result,         \* String result, a sequence of characters
    history,        \* the earlier calls of the decoder: arguments, returned text
    dpc             \* Idle, Loop, Returned

timeVars == << now, total_start, stage1_time, stage2_time, stage3_time, total_time >>

loopVars == << pc, fb, plate_box, plate_polygon, plate_number, corner_conf,
               outcome, calls, returns, lent, acquired, iterations,
               timeVars, reports, events >>

decodeVars == << predictions, seq_len, num_classes, i, prev_class, result,
                history, dpc >>

setupVars == << spc, setup_result, camera_ok, version, interpreter, tensors >>

prepVars == << src, py, input_buffer, written, ppc >>

\* what loop(), ctcBeamSearchDecode, setup() and preprocessImage leave alone
notLoopVars == << decodeVars, setupVars, prepVars >>

notDecodeVars == << loopVars, setupVars, prepVars >>

notSetupVars == << loopVars, decodeVars, prepVars >>

notPrepVars == << loopVars, decodeVars, setupVars >>

vars == << pc, fb, plate_box, plate_polygon, plate_number, corner_conf,
           outcome, calls, returns, lent, acquired, iterations,
           now, total_start, stage1_time, stage2_time, stage3_time, total_time,
           reports, events,
           spc, setup_result, camera_ok, version, interpreter, tensors,
           src, py, input_buffer, written, ppc,
           predictions, seq_len, num_classes, i, prev_class, result, history, dpc >>

\* ------------------------------------------------------------------------
\* setup()
\* ------------------------------------------------------------------------

\* The globals before setup() runs: every pointer nullptr. The model assets
\* are compiled in, each with the schema version it declares.
SetupInit ==
    /\ spc = "CameraInit"
    /\ setup_result = "Running"
    /\ camera_ok = FALSE
    /\ version \in [Models -> SchemaVersions]
    /\ interpreter = [m \in Models |-> "null"]
    /\ tensors = [m \in Models |-> FALSE]

\* setup() with three assets of the supported schema version
SetupIdle ==
    /\ spc = "CameraInit"
    /\ setup_result = "Running"
    /\ camera_ok = FALSE
    /\ version = [m \in Models |-> TFLITE_SCHEMA_VERSION]
    /\ interpreter = [m \in Models |-> "null"]
    /\ tensors = [m \in Models |-> FALSE]

\* esp_err_t err = esp_camera_init(&config); if (err != ESP_OK) { ...; return; }
SetupCamera ==
    /\ spc = "CameraInit"
    /\ \/ /\ camera_ok' = FALSE
          /\ setup_result' = "CameraFailed"
          /\ spc' = "Returned"
       \/ /\ camera_ok' = TRUE
          /\ spc' = "LoadDetection"
          /\ UNCHANGED setup_result
    /\ UNCHANGED << version, interpreter, tensors >>
    /\ UNCHANGED notSetupVars

\* Stage 1: GetModel, the version check, the static interpreter on
\* tensor_arena, AllocateTensors, input(0) and output(0)
LoadDetection ==
    /\ spc = "LoadDetection"
    /\ IF version["detection"] # TFLITE_SCHEMA_VERSION
          THEN /\ setup_result' = "ModelLoadFailed"
               /\ spc' = "Returned"
               /\ UNCHANGED << interpreter, tensors >>
          ELSE \/ /\ interpreter' = [interpreter EXCEPT !["detection"] = "constructed"]
                  /\ setup_result' = "ModelLoadFailed"
                  /\ spc' = "Returned"
                  /\ UNCHANGED tensors
               \/ /\ interpreter' = [interpreter EXCEPT !["detection"] = "allocated"]
                  /\ tensors' = [tensors EXCEPT !["detection"] = TRUE]
                  /\ spc' = "LoadPolygon"
                  /\ UNCHANGED setup_result
    /\ UNCHANGED << camera_ok, version >>
    /\ UNCHANGED notSetupVars

\* LoadPolygon without the return in the failure branch: it reports the
\* failure and goes on to the OCR model
LoadPolygon_NoReturn ==
    /\ spc = "LoadPolygon"
    /\ \/ /\ interpreter' = [interpreter EXCEPT !["polygon"] = "constructed"]
          /\ setup_result' = "ModelLoadFailed"
          /\ spc' = "LoadOcr"
          /\ UNCHANGED tensors
       \/ /\ interpreter' = [interpreter EXCEPT !["polygon"] = "allocated"]
          /\ tensors' = [tensors EXCEPT !["polygon"] = TRUE]
          /\ spc' = "LoadOcr"
          /\ UNCHANGED setup_result
    /\ UNCHANGED << camera_ok, version >>
    /\ UNCHANGED notSetupVars

\* Stage 2: GetModel, the static interpreter on tensor_arena, AllocateTensors,
\* input(0) and output(0). The version of the asset is not read.
LoadPolygon ==
    /\ spc = "LoadPolygon"
    /\ \/ /\ interpreter' = [interpreter EXCEPT !["polygon"] = "constructed"]
          /\ setup_result' = "ModelLoadFailed"
          /\ spc' = "Returned"
          /\ UNCHANGED tensors
       \/ /\ interpreter' = [interpreter EXCEPT !["polygon"] = "allocated"]
          /\ tensors' = [tensors EXCEPT !["polygon"] = TRUE]
          /\ spc' = "LoadOcr"
          /\ UNCHANGED setup_result
    /\ UNCHANGED << camera_ok, version >>
    /\ UNCHANGED notSetupVars

\* Stage 3: GetModel, the static interpreter on tensor_arena, AllocateTensors,
\* input(0) and output(0), "All Models Ready". The version is not read.
LoadOcr ==
    /\ spc = "LoadOcr"
    /\ \/ /\ interpreter' = [interpreter EXCEPT !["ocr"] = "constructed"]
          /\ setup_result' = "ModelLoadFailed"
          /\ UNCHANGED tensors
       \/ /\ interpreter' = [interpreter EXCEPT !["ocr"] = "allocated"]
          /\ tensors' = [tensors EXCEPT !["ocr"] = TRUE]
          /\ setup_result' = "Ready"
    /\ spc' = "Returned"
    /\ UNCHANGED << camera_ok, version >>
    /\ UNCHANGED notSetupVars

\* ------------------------------------------------------------------------
\* preprocessImage(fb, input_buffer)
\* ------------------------------------------------------------------------

\* The frames preprocessImage is called with: << width, height, len >>. A
\* grayscale frame has len = width * height; a frame whose buffer is shorter
\* than that (a compressed or cut-off frame) is what the src_idx < fb->len
\* test is there for.
PreprocessFrames ==
    { << 320, 240, 76800 >>, << 160, 120, 19200 >>, << 128, 64, 8192 >>,
      << 1, 1, 1 >>, << 3, 5, 15 >>, << 200, 50, 10000 >>, << 130, 70, 9100 >>,
      << 320, 240, 38400 >>, << 3, 5, 7 >>, << 130, 70, 9000 >> }

\* fb->buf[idx]: the bytes of the frame, none of them 0, so that a 0 in
\* input_buffer is a value the frame does not hold
SrcData(f, idx) == ((idx * 31 + f.id) % 255) + 1

\* SrcX with the division rounding up
SrcX_RoundUp(f, x) == (x * f.width + OCR_INPUT_WIDTH - 1) \div OCR_INPUT_WIDTH

\* int src_x = (x * src_width) / OCR_INPUT_WIDTH;
SrcX(f, x) == (x * f.width) \div OCR_INPUT_WIDTH

\* int src_y = (y * src_height) / OCR_INPUT_HEIGHT;
SrcY(f, y) == (y * f.height) \div OCR_INPUT_HEIGHT

\* int src_idx = src_y * src_width + src_x;
SrcIdx(f, x, y) == SrcY(f, y) * f.width + SrcX(f, x)

\* OutIdx with the height where the row length belongs
OutIdx_HeightStride(x, y) == y * OCR_INPUT_HEIGHT + x

\* input_buffer[y * OCR_INPUT_WIDTH + x]
OutIdx(x, y) == y * OCR_INPUT_WIDTH + x

\* if (src_idx < fb->len) src_data[src_idx] / 255.0f else 0.0f
Sample(f, x, y) ==
    IF SrcIdx(f, x, y) < f.len THEN SrcData(f, SrcIdx(f, x, y)) ELSE 0

PrepIdle ==
    /\ src = NULL
    /\ py = 0
    /\ input_buffer = << >>
    /\ written = << >>
    /\ ppc = "Idle"

\* int src_width = fb->width; int src_height = fb->height;
\* uint8_t *src_data = fb->buf; int y = 0;
PreprocessEnter ==
    /\ ppc = "Called"
    /\ py' = 0
    /\ ppc' = "Loop"
    /\ UNCHANGED << src, input_buffer, written >>
    /\ UNCHANGED notPrepVars

\* one pass of for (int y = 0; y < OCR_INPUT_HEIGHT; y++): the whole
\* for (int x = 0; x < OCR_INPUT_WIDTH; x++) loop of row y
PreprocessRow ==
    /\ ppc = "Loop"
    /\ py < OCR_INPUT_HEIGHT
    /\ LET row == { OutIdx(x, py) : x \in 0..(OCR_INPUT_WIDTH - 1) }
           xOf(k) == CHOOSE x \in 0..(OCR_INPUT_WIDTH - 1) : OutIdx(x, py) = k
       IN  /\ input_buffer' =
                 [k \in row |-> Sample(src, xOf(k), py)] @@ input_buffer
           /\ written' = written \o [n \in 1..OCR_INPUT_WIDTH |-> OutIdx(n - 1, py)]
    /\ py' = py + 1
    /\ UNCHANGED << src, ppc >>
    /\ UNCHANGED notPrepVars

\* the outer loop is over: return
PreprocessReturn ==
    /\ ppc = "Loop"
    /\ ~ (py < OCR_INPUT_HEIGHT)
    /\ ppc' = "Returned"
    /\ UNCHANGED << src, py, input_buffer, written >>
    /\ UNCHANGED notPrepVars

PreprocessNext ==
    \/ PreprocessEnter
    \/ PreprocessRow
    \/ PreprocessReturn

\* ------------------------------------------------------------------------
\* loop()
\* ------------------------------------------------------------------------

LoopInit ==
    /\ pc = "Capturing"
    /\ fb = NULL
    /\ plate_box = NoBox
    /\ plate_polygon = NoPolygon
    /\ plate_number = ""
    /\ corner_conf = 0
    /\ outcome = "None"
    /\ calls = << >>
    /\ returns = 0
    /\ lent = 0
    /\ acquired = 0
    /\ iterations = 0
    /\ now = 0
    /\ total_start = 0
    /\ stage1_time = 0
    /\ stage2_time = 0
    /\ stage3_time = 0
    /\ total_time = 0
    /\ reports = << >>
    /\ events = << >>

DecodeIdle ==
    /\ predictions = << >>
    /\ seq_len = 0
    /\ num_classes = 1
    /\ i = 0
    /\ prev_class = -1
    /\ result = << >>
    /\ history = << >>
    /\ dpc = "Idle"

\* Capture that calls esp_camera_fb_return(fb) before returning without a frame
Capture_ReturnsNull ==
    /\ pc = "Capturing"
    /\ spc = "Returned"
    /\ \/ /\ fb' = NULL
          /\ reports' = Append(reports, CaptureFailedReport)
          /\ outcome' = "NoFrame"
          /\ pc' = "Done"
          /\ returns' = returns + 1
          /\ UNCHANGED << lent, acquired, total_start >>
       \/ /\ camera_ok
          /\ lent < fb_count
          /\ \E size \in FrameSizes : fb' = Frame(acquired + 1, size)
          /\ lent' = lent + 1
          /\ acquired' = acquired + 1
          /\ total_start' = now
          /\ pc' = "Detecting"
          /\ UNCHANGED << outcome, reports, returns >>
    /\ UNCHANGED << plate_box, plate_polygon, plate_number, corner_conf,
                    calls, iterations,
                    now, stage1_time, stage2_time, stage3_time, total_time >>
    /\ events' = (IF fb' # NULL THEN Append(events, "read") ELSE events)
                      \o (IF returns' > returns THEN << "return" >> ELSE << >>)
    /\ UNCHANGED notLoopVars

\* camera_fb_t *fb = esp_camera_fb_get(); if (!fb) { ...; return; }
\* The Arduino core calls loop() once setup() has returned, however it
\* returned. The driver has fb_count buffers; with none free, or with the
\* camera not initialised, it returns NULL.
Capture ==
    /\ pc = "Capturing"
    /\ spc = "Returned"
    /\ \/ /\ fb' = NULL
          /\ reports' = Append(reports, CaptureFailedReport)
          /\ outcome' = "NoFrame"
          /\ pc' = "Done"
          /\ UNCHANGED << lent, acquired, total_start >>
       \/ /\ camera_ok
          /\ lent < fb_count
          /\ \E size \in FrameSizes : fb' = Frame(acquired + 1, size)
          /\ lent' = lent + 1
          /\ acquired' = acquired + 1
          /\ total_start' = now
          /\ pc' = "Detecting"
          /\ UNCHANGED << outcome, reports >>
    /\ UNCHANGED << plate_box, plate_polygon, plate_number, corner_conf,
                    calls, returns, iterations,
                    now, stage1_time, stage2_time, stage3_time, total_time >>
    /\ events' = (IF fb' # NULL THEN Append(events, "read") ELSE events)
                      \o (IF returns' > returns THEN << "return" >> ELSE << >>)
    /\ UNCHANGED notLoopVars

\* DetectStage with the gate rejecting a confidence equal to the threshold
DetectStage_RejectAtThreshold ==
    /\ pc = "Detecting"
    /\ \E conf \in DetectionConfidence, d \in StageMillis :
          /\ now' = now + d
          /\ stage1_time' = now' - now
          /\ plate_box' = detectPlate(fb, conf)
          /\ calls' = Append(calls, "detectPlate")
          /\ IF conf <= detectionThreshold
                THEN /\ returns' = returns + 1
                     /\ lent' = lent - 1
                     /\ outcome' = "NotFound"
                     /\ reports' = Append(reports, NoPlateReport)
                     /\ pc' = "Done"
                ELSE /\ pc' = "Rectifying"
                     /\ UNCHANGED << returns, lent, outcome, reports >>
    /\ UNCHANGED << fb, plate_polygon, plate_number, corner_conf,
                    acquired, iterations,
                    total_start, stage2_time, stage3_time, total_time >>
    /\ events' = Append(events, "detectPlate") \o (IF returns' > returns THEN << "return" >> ELSE << >>)
    /\ UNCHANGED notLoopVars

\* DetectStage with the rejecting branch returning without esp_camera_fb_return
DetectStage_NoReturn ==
    /\ pc = "Detecting"
    /\ \E conf \in DetectionConfidence, d \in StageMillis :
          /\ now' = now + d
          /\ stage1_time' = now' - now
          /\ plate_box' = detectPlate(fb, conf)
          /\ calls' = Append(calls, "detectPlate")
          /\ IF conf < detectionThreshold
                THEN /\ outcome' = "NotFound"
                     /\ reports' = Append(reports, NoPlateReport)
                     /\ pc' = "Done"
                     /\ UNCHANGED << returns, lent >>
                ELSE /\ pc' = "Rectifying"
                     /\ UNCHANGED << returns, lent, outcome, reports >>
    /\ UNCHANGED << fb, plate_polygon, plate_number, corner_conf,
                    acquired, iterations,
                    total_start, stage2_time, stage3_time, total_time >>
    /\ events' = Append(events, "detectPlate") \o (IF returns' > returns THEN << "return" >> ELSE << >>)
    /\ UNCHANGED notLoopVars

\* DetectStage with the gate only reporting: no return statement in its branch,
\* so a rejected frame is released there and still runs the later stages
DetectStage_FallThrough ==
    /\ pc = "Detecting"
    /\ \E conf \in DetectionConfidence, d \in StageMillis :
          /\ now' = now + d
          /\ stage1_time' = now' - now
          /\ plate_box' = detectPlate(fb, conf)
          /\ calls' = Append(calls, "detectPlate")
          /\ IF conf < detectionThreshold
                THEN /\ returns' = returns + 1
                     /\ lent' = lent - 1
                     /\ outcome' = "NotFound"
                     /\ reports' = Append(reports, NoPlateReport)
                     /\ pc' = "Rectifying"
                ELSE /\ pc' = "Rectifying"
                     /\ UNCHANGED << returns, lent, outcome, reports >>
    /\ UNCHANGED << fb, plate_polygon, plate_number, corner_conf,
                    acquired, iterations,
                    total_start, stage2_time, stage3_time, total_time >>
    /\ events' = Append(events, "detectPlate") \o (IF returns' > returns THEN << "return" >> ELSE << >>)
    /\ UNCHANGED notLoopVars

\* DetectStage that runs detection again on the same frame after a rejection
DetectStage_Retry ==
    /\ pc = "Detecting"
    /\ \E conf \in DetectionConfidence, d \in StageMillis :
          /\ now' = now + d
          /\ stage1_time' = now' - now
          /\ plate_box' = detectPlate(fb, conf)
          /\ calls' = Append(calls, "detectPlate")
          /\ IF conf < detectionThreshold
                THEN IF Len(calls) = 0
                        THEN /\ pc' = "Detecting"
                             /\ UNCHANGED << returns, lent, outcome, reports >>
                        ELSE /\ returns' = returns + 1
                             /\ lent' = lent - 1
                             /\ outcome' = "NotFound"
                             /\ reports' = Append(reports, NoPlateReport)
                             /\ pc' = "Done"
                ELSE /\ pc' = "Rectifying"
                     /\ UNCHANGED << returns, lent, outcome, reports >>
    /\ UNCHANGED << fb, plate_polygon, plate_number, corner_conf,
                    acquired, iterations,
                    total_start, stage2_time, stage3_time, total_time >>
    /\ events' = Append(events, "detectPlate") \o (IF returns' > returns THEN << "return" >> ELSE << >>)
    /\ UNCHANGED notLoopVars

\* BoundingBox plate_box = detectPlate(fb);
\* if (plate_box.confidence < 0.5) { esp_camera_fb_return(fb); ...; return; }
DetectStage ==
    /\ pc = "Detecting"
    /\ \E conf \in DetectionConfidence, d \in StageMillis :
          /\ now' = now + d
          /\ stage1_time' = now' - now
          /\ plate_box' = detectPlate(fb, conf)
          /\ calls' = Append(calls, "detectPlate")
          /\ IF conf < detectionThreshold
                THEN /\ returns' = returns + 1
                     /\ lent' = lent - 1
                     /\ outcome' = "NotFound"
                     /\ reports' = Append(reports, NoPlateReport)
                     /\ pc' = "Done"
                ELSE /\ pc' = "Rectifying"
                     /\ UNCHANGED << returns, lent, outcome, reports >>
    /\ UNCHANGED << fb, plate_polygon, plate_number, corner_conf,
                    acquired, iterations,
                    total_start, stage2_time, stage3_time, total_time >>
    /\ events' = Append(events, "detectPlate") \o (IF returns' > returns THEN << "return" >> ELSE << >>)
    /\ UNCHANGED notLoopVars

\* RectifyStage with a confidence gate: a corner confidence below the
\* threshold releases the frame and ends the iteration
RectifyStage_Gated ==
    /\ pc = "Rectifying"
    /\ \E conf \in PolygonConfidence, d \in StageMillis :
          /\ now' = now + d
          /\ stage2_time' = now' - now
          /\ corner_conf' = conf
          /\ IF conf < rectificationThreshold
                THEN /\ returns' = returns + 1
                     /\ lent' = lent - 1
                     /\ outcome' = "NotFound"
                     /\ reports' = Append(reports, NoPlateReport)
                     /\ pc' = "Done"
                ELSE /\ pc' = "Recognizing"
                     /\ UNCHANGED << returns, lent, outcome, reports >>
    /\ plate_polygon' = detectPolygon(fb, plate_box)
    /\ calls' = Append(calls, "detectPolygon")
    /\ UNCHANGED << fb, plate_box, plate_number, acquired, iterations,
                    total_start, stage1_time, stage3_time, total_time >>
    /\ events' = Append(events, "detectPolygon") \o (IF returns' > returns THEN << "return" >> ELSE << >>)
    /\ UNCHANGED notLoopVars

\* RectifyStage that gives up on a low corner confidence and returns from
\* loop() with the frame still held
RectifyStage_AbortNoReturn ==
    /\ pc = "Rectifying"
    /\ \E conf \in PolygonConfidence, d \in StageMillis :
          /\ now' = now + d
          /\ stage2_time' = now' - now
          /\ corner_conf' = conf
          /\ IF conf < rectificationThreshold
                THEN /\ UNCHANGED << returns, lent >>
                     /\ outcome' = "NotFound"
                     /\ reports' = Append(reports, NoPlateReport)
                     /\ pc' = "Done"
                ELSE /\ pc' = "Recognizing"
                     /\ UNCHANGED << returns, lent, outcome, reports >>
    /\ plate_polygon' = detectPolygon(fb, plate_box)
    /\ calls' = Append(calls, "detectPolygon")
    /\ UNCHANGED << fb, plate_box, plate_number, acquired, iterations,
                    total_start, stage1_time, stage3_time, total_time >>
    /\ events' = Append(events, "detectPolygon") \o (IF returns' > returns THEN << "return" >> ELSE << >>)
    /\ UNCHANGED notLoopVars

\* Polygon plate_polygon = detectPolygon(fb, plate_box);
RectifyStage ==
    /\ pc = "Rectifying"
    /\ \E conf \in PolygonConfidence : corner_conf' = conf
    /\ \E d \in StageMillis : now' = now + d
    /\ stage2_time' = now' - now
    /\ plate_polygon' = detectPolygon(fb, plate_box)
    /\ calls' = Append(calls, "detectPolygon")
    /\ pc' = "Recognizing"
    /\ UNCHANGED << fb, plate_box, plate_number, outcome, returns, lent,
                    acquired, iterations,
                    total_start, stage1_time, stage3_time, total_time, reports >>
    /\ events' = Append(events, "detectPolygon") \o (IF returns' > returns THEN << "return" >> ELSE << >>)
    /\ UNCHANGED notLoopVars

\* RecognizeStage that gives the frame back before the OCR stage reads it
RecognizeStage_ReturnFirst ==
    /\ pc = "Recognizing"
    /\ \E d \in StageMillis : now' = now + d
    /\ plate_number' = recognizeCharacters(fb, plate_polygon)
    /\ stage3_time' = now' - now
    /\ total_time' = now' - total_start
    /\ reports' = Append(reports,
                         CompleteReport(plate_number', stage1_time, stage2_time,
                                        stage3_time', total_time',
                                        plate_box.confidence))
    /\ calls' = Append(calls, "recognizeCharacters")
    /\ returns' = returns + 1
    /\ lent' = lent - 1
    /\ outcome' = "Recognized"
    /\ pc' = "Done"
    /\ UNCHANGED << fb, plate_box, plate_polygon, corner_conf,
                    acquired, iterations,
                    total_start, stage1_time, stage2_time >>
    /\ events' = events \o << "return", "recognizeCharacters" >>
    /\ UNCHANGED notLoopVars

\* RecognizeStage without the esp_camera_fb_return(fb) after the report
RecognizeStage_NoReturn ==
    /\ pc = "Recognizing"
    /\ \E d \in StageMillis : now' = now + d
    /\ plate_number' = recognizeCharacters(fb, plate_polygon)
    /\ stage3_time' = now' - now
    /\ total_time' = now' - total_start
    /\ reports' = Append(reports,
                         CompleteReport(plate_number', stage1_time, stage2_time,
                                        stage3_time', total_time',
                                        plate_box.confidence))
    /\ calls' = Append(calls, "recognizeCharacters")
    /\ UNCHANGED << returns, lent >>
    /\ outcome' = "Recognized"
    /\ pc' = "Done"
    /\ UNCHANGED << fb, plate_box, plate_polygon, corner_conf,
                    acquired, iterations,
                    total_start, stage1_time, stage2_time >>
    /\ events' = Append(events, "recognizeCharacters") \o (IF returns' > returns THEN << "return" >> ELSE << >>)
    /\ UNCHANGED notLoopVars

\* String plate_number = recognizeCharacters(fb, plate_polygon);
\* ... the report ...; esp_camera_fb_return(fb);
RecognizeStage ==
    /\ pc = "Recognizing"
    /\ \E d \in StageMillis : now' = now + d
    /\ plate_number' = recognizeCharacters(fb, plate_polygon)
    /\ stage3_time' = now' - now
    /\ total_time' = now' - total_start
    /\ reports' = Append(reports,
                         CompleteReport(plate_number', stage1_time, stage2_time,
                                        stage3_time', total_time',
                                        plate_box.confidence))
    /\ calls' = Append(calls, "recognizeCharacters")
    /\ returns' = returns + 1
    /\ lent' = lent - 1
    /\ outcome' = "Recognized"
    /\ pc' = "Done"
    /\ UNCHANGED << fb, plate_box, plate_polygon, corner_conf,
                    acquired, iterations,
                    total_start, stage1_time, stage2_time >>
    /\ events' = Append(events, "recognizeCharacters") \o (IF returns' > returns THEN << "return" >> ELSE << >>)
    /\ UNCHANGED notLoopVars

\* NextIteration for a sketch that stops for good after a rejected frame
NextIteration_HaltOnNotFound ==
    /\ pc = "Done"
    /\ outcome # "NotFound"
    /\ iterations < MaxFrames
    /\ iterations' = iterations + 1
    /\ pc' = "Capturing"
    /\ fb' = NULL
    /\ plate_box' = NoBox
    /\ plate_polygon' = NoPolygon
    /\ plate_number' = ""
    /\ corner_conf' = 0
    /\ outcome' = "None"
    /\ calls' = << >>
    /\ returns' = 0
    /\ total_start' = 0
    /\ stage1_time' = 0
    /\ stage2_time' = 0
    /\ stage3_time' = 0
    /\ total_time' = 0
    /\ reports' = << >>
    /\ UNCHANGED << lent, acquired, now >>
    /\ events' = << >>
    /\ UNCHANGED notLoopVars

\* loop() has returned and the Arduino core calls it again: its locals are new.
NextIteration ==
    /\ pc = "Done"
    /\ iterations < MaxFrames
    /\ iterations' = iterations + 1
    /\ pc' = "Capturing"
    /\ fb' = NULL
    /\ plate_box' = NoBox
    /\ plate_polygon' = NoPolygon
    /\ plate_number' = ""
    /\ corner_conf' = 0
    /\ outcome' = "None"
    /\ calls' = << >>
    /\ returns' = 0
    /\ total_start' = 0
    /\ stage1_time' = 0
    /\ stage2_time' = 0
    /\ stage3_time' = 0
    /\ total_time' = 0
    /\ reports' = << >>
    /\ UNCHANGED << lent, acquired, now >>
    /\ events' = << >>
    /\ UNCHANGED notLoopVars

\* ------------------------------------------------------------------------
\* ctcBeamSearchDecode(predictions, seq_len, num_classes)
\* ------------------------------------------------------------------------

\* for (int c = 1; c < num_classes; c++)
\*     if (predictions[i * num_classes + c] > max_prob) { max_prob = ...; max_class = c; }
\* predictions[k] of the source is preds[k + 1] here.
RECURSIVE ArgMaxLoop(_, _, _, _, _, _)
ArgMaxLoop(preds, base, n, c, max_class, max_prob) ==
    IF c < n
        THEN IF preds[base + c + 1] > max_prob
                THEN ArgMaxLoop(preds, base, n, c + 1, c, preds[base + c + 1])
                ELSE ArgMaxLoop(preds, base, n, c + 1, max_class, max_prob)
        ELSE [max_class |-> max_class, max_prob |-> max_prob]

\* ArgMax with >= in the comparison: of the classes that share the maximum
\* the highest wins
ArgMax_TiesToLast(preds, t, n) ==
    LET row == { preds[t * n + k + 1] : k \in 0..(n - 1) }
        m == CHOOSE v \in row : \A w \in row : w <= v
        c == CHOOSE k \in 0..(n - 1) :
                /\ preds[t * n + k + 1] = m
                /\ \A j \in (k + 1)..(n - 1) : preds[t * n + j + 1] # m
    IN  [max_class |-> c, max_prob |-> m]

\* int max_class = 0; float max_prob = predictions[i * num_classes]; the loop
ArgMax(preds, t, n) == ArgMaxLoop(preds, t * n, n, 1, 0, preds[t * n + 1])

\* ResultAfter indexing the table with max_class instead of max_class - 1
ResultAfter_OffByOne(res, max_class, prev) ==
    IF max_class # 0 /\ max_class # prev
        THEN IF max_class < NUM_CHARACTERS
                THEN Append(res, CHARACTERS[max_class + 1])
                ELSE res
        ELSE res

\* ResultAfter that does not skip the blank class: it writes a space for it
ResultAfter_BlankEmits(res, max_class, prev) ==
    IF max_class # prev
        THEN IF max_class = 0
                THEN Append(res, " ")
                ELSE IF max_class - 1 < NUM_CHARACTERS
                        THEN Append(res, CHARACTERS[max_class])
                        ELSE res
        ELSE res

\* ResultAfter without the test against NUM_CHARACTERS: for a class beyond
\* the table it appends the byte that lies behind the table
ResultAfter_NoTableTest(res, max_class, prev) ==
    IF max_class # 0 /\ max_class # prev
        THEN IF max_class - 1 < NUM_CHARACTERS
                THEN Append(res, CHARACTERS[max_class])
                ELSE Append(res, "\\0")
        ELSE res

\* ResultAfter that skips blanks only and does not collapse repeats
ResultAfter_NoCollapse(res, max_class, prev) ==
    IF max_class # 0
        THEN IF max_class - 1 < NUM_CHARACTERS
                THEN Append(res, CHARACTERS[max_class])
                ELSE res
        ELSE res

\* if (max_class != 0 && max_class != prev_class)
\*     if (max_class - 1 < NUM_CHARACTERS) result += CHARACTERS[max_class - 1];
ResultAfter(res, max_class, prev) ==
    IF max_class # 0 /\ max_class # prev
        THEN IF max_class - 1 < NUM_CHARACTERS
                THEN Append(res, CHARACTERS[max_class])
                ELSE res
        ELSE res

\* PrevAfter that remembers the last non-blank class across blanks
PrevAfter_KeepAcrossBlank(max_class, prev) ==
    IF max_class # 0 THEN max_class ELSE prev

\* prev_class = max_class;
PrevAfter(max_class, prev) == max_class

\* DecodeEnter with prev_class a static: it keeps the value the call before
\* left in it
DecodeEnter_StaticPrev ==
    /\ dpc = "Called"
    /\ result' = << >>
    /\ prev_class' = prev_class
    /\ i' = 0
    /\ dpc' = "Loop"
    /\ UNCHANGED << predictions, seq_len, num_classes, history >>
    /\ UNCHANGED notDecodeVars

\* DecodeEnter with the for loop starting at the second timestep
DecodeEnter_SkipFirst ==
    /\ dpc = "Called"
    /\ result' = << >>
    /\ prev_class' = -1
    /\ i' = IF seq_len > 0 THEN 1 ELSE 0
    /\ dpc' = "Loop"
    /\ UNCHANGED << predictions, seq_len, num_classes, history >>
    /\ UNCHANGED notDecodeVars

\* String result = ""; int prev_class = -1; int i = 0;
DecodeEnter ==
    /\ dpc = "Called"
    /\ result' = << >>
    /\ prev_class' = -1
    /\ i' = 0
    /\ dpc' = "Loop"
    /\ UNCHANGED << predictions, seq_len, num_classes, history >>
    /\ UNCHANGED notDecodeVars

\* one pass of for (int i = 0; i < seq_len; i++) { ... }
DecodeStep ==
    /\ dpc = "Loop"
    /\ i < seq_len
    /\ LET max_class == ArgMax(predictions, i, num_classes).max_class
       IN  /\ result' = ResultAfter(result, max_class, prev_class)
           /\ prev_class' = PrevAfter(max_class, prev_class)
    /\ i' = i + 1
    /\ UNCHANGED << predictions, seq_len, num_classes, history, dpc >>
    /\ UNCHANGED notDecodeVars

\* return result;
DecodeReturn ==
    /\ dpc = "Loop"
    /\ ~ (i < seq_len)
    /\ dpc' = "Returned"
    /\ UNCHANGED << predictions, seq_len, num_classes, i, prev_class, result,
                    history >>
    /\ UNCHANGED notDecodeVars

\* What the call hands back: String ctcBeamSearchDecode(...) { ... return
\* result; }. The String is all of it; max_prob of each pass is a local that
\* is compared against and then dropped.
DecodeReturnValue == [text |-> result]

\* ---- the grids the decoder is called with

\* num_classes of the calls: one class, blank + 2, blank + alphabet, and one
\* class more than the table has characters for
NumClasses == { 1, 3, NUM_CHARACTERS + 1, NUM_CHARACTERS + 2 }

\* A row is given by << a, b, p >>: class a has probability 3, class b (when
\* it is not a) has probability p, every other class 0. One-hot rows, ties
\* between two classes, and a runner-up.
RowKinds ==
    { << 0, 0, 3 >>, << 1, 1, 3 >>, << 2, 2, 3 >>, << 11, 11, 3 >>,
      << 36, 36, 3 >>, << 37, 37, 3 >>,
      << 0, 1, 3 >>, << 1, 2, 3 >>, << 2, 1, 1 >> }

RowKindsOf(n) == { d \in RowKinds : d[1] < n /\ d[2] < n }

\* the flat array of the rows ds[1], ..., ds[Len(ds)], n classes each
GridOf(ds, n) ==
    [k \in 1..(Len(ds) * n) |->
        LET d == ds[((k - 1) \div n) + 1]
            c == (k - 1) % n
        IN  IF c = d[1] THEN 3 ELSE IF c = d[2] THEN d[3] ELSE 0]

OneHot(c) == << c, c, 3 >>

\* label sequences of the design's examples, as one-hot rows: blank, 1, 2, and
\* the classes 11 and 12 of the characters A and B
ExampleLabels ==
    { << 0, 1, 1, 0, 2, 2, 0 >>, << 0, 11, 11, 0, 12, 12, 0 >>,
      << 1, 1, 1 >>, << 11, 11, 11 >>, << 1, 0, 1 >>, << 11, 0, 11 >> }

ExampleRows(labels) == [t \in 1..Len(labels) |-> OneHot(labels[t])]

DecodeInit ==
    /\ LoopInit
    /\ SetupIdle
    /\ PrepIdle
    /\ dpc = "Called"
    /\ i = 0
    /\ prev_class = -1
    /\ result = << >>
    /\ history = << >>
    /\ num_classes \in NumClasses
    /\ \/ /\ seq_len \in 0..MaxSeqLen
          /\ \E ds \in [1..seq_len -> RowKindsOf(num_classes)] :
                predictions = GridOf(ds, num_classes)
       \/ \E labels \in ExampleLabels :
             /\ \A t \in 1..Len(labels) : labels[t] < num_classes
             /\ seq_len = Len(labels)
             /\ predictions = GridOf(ExampleRows(labels), num_classes)

DecodeNext ==
    \/ DecodeEnter
    \/ DecodeStep
    \/ DecodeReturn

DecodeSpec == DecodeInit /\ [][DecodeNext]_vars

\* ---- calls of the decoder one after another

\* the label sequences of the grids of repeated calls, with their num_classes
RecallLabels ==
    { << 3, << >> >>, << 3, << 0 >> >>, << 3, << 1, 1 >> >>, << 3, << 1, 0, 1 >> >>,
      << 3, << 2, 1 >> >>, << NUM_CHARACTERS + 1, << 11, 11, 12 >> >>,
      << NUM_CHARACTERS + 2, << 36, 37 >> >> }

\* the arguments of a call
CallWith(call) ==
    /\ num_classes' = call[1]
    /\ seq_len' = Len(call[2])
    /\ predictions' = GridOf(ExampleRows(call[2]), call[1])

\* the first call
RecallInit ==
    /\ LoopInit
    /\ SetupIdle
    /\ PrepIdle
    /\ dpc = "Called"
    /\ i = 0
    /\ prev_class = -1
    /\ result = << >>
    /\ history = << >>
    /\ \E call \in RecallLabels :
          /\ num_classes = call[1]
          /\ seq_len = Len(call[2])
          /\ predictions = GridOf(ExampleRows(call[2]), call[1])

\* The caller has the returned String and calls ctcBeamSearchDecode again.
\* What the last call left in the locals' storage is still there until the
\* new call assigns them.
DecodeCall ==
    /\ dpc = "Returned"
    /\ Len(history) < MaxCalls - 1
    /\ history' = Append(history, [predictions |-> predictions, seq_len |-> seq_len,
                                   num_classes |-> num_classes,
                                   text |-> DecodeReturnValue.text])
    /\ \E call \in RecallLabels : CallWith(call)
    /\ dpc' = "Called"
    /\ UNCHANGED << i, prev_class, result >>
    /\ UNCHANGED notDecodeVars

RecallNext ==
    \/ DecodeCall
    \/ DecodeEnter
    \/ DecodeStep
    \/ DecodeReturn

RecallSpec == RecallInit /\ [][RecallNext]_vars

Init == SetupInit /\ LoopInit /\ DecodeIdle /\ PrepIdle

Next ==
    \/ SetupCamera
    \/ LoadDetection
    \/ LoadPolygon
    \/ LoadOcr
    \/ Capture
    \/ DetectStage
    \/ RectifyStage
    \/ RecognizeStage
    \/ NextIteration

Spec == Init /\ [][Next]_vars

\* the call: a frame, nothing written yet
PreprocessInit ==
    /\ LoopInit
    /\ SetupIdle
    /\ DecodeIdle
    /\ \E fr \in PreprocessFrames :
          src = [id |-> 1, width |-> fr[1], height |-> fr[2], len |-> fr[3]]
    /\ py = 0
    /\ input_buffer = << >>
    /\ written = << >>
    /\ ppc = "Called"

PreprocessSpec == PreprocessInit /\ [][PreprocessNext]_vars

\* The Arduino core runs setup() and then calls loop() for ever; every call
\* in them returns, so a step that can be taken is taken.
LiveSpec == Init /\ [][Next]_vars /\ WF_vars(Next)

\* ------------------------------------------------------------------------
\* Properties of loop()
\* ------------------------------------------------------------------------

Contains(seq, x) == \E k \in DOMAIN seq : seq[k] = x

Stages == << "detectPlate", "detectPolygon", "recognizeCharacters" >>

\* C1: an iteration that got a frame calls esp_camera_fb_return exactly once
\* for it before the iteration ends, whether it ends recognised or rejected:
\* never twice at any point, once when loop() returns, and the driver then
\* has the buffer back. An iteration without a frame makes no call.
C1_ReleasedExactlyOnce ==
    /\ returns <= 1
    /\ (pc = "Done" /\ fb # NULL) => (returns = 1 /\ lent = 0)
    /\ (pc # "Done" /\ fb # NULL) => (returns = 0 /\ lent = 1)
    /\ fb = NULL => returns = 0

C1_Witness ==
    /\ pc = "Done"
    /\ fb # NULL
    /\ outcome = "Recognized"
    /\ returns = 1
    /\ iterations = 2

\* C2: once detection has reported a confidence below the threshold, the
\* iteration is over with NotFound, detectPlate is the only stage that was
\* called for the frame, and the frame was returned exactly once.
C2_RejectedDetectionStops ==
    (Len(calls) > 0 /\ plate_box.confidence < detectionThreshold) =>
        /\ pc = "Done"
        /\ outcome = "NotFound"
        /\ calls = << "detectPlate" >>
        /\ returns = 1

C2_Witness ==
    /\ pc = "Done"
    /\ plate_box.confidence = 30
    /\ outcome = "NotFound"
    /\ calls = << "detectPlate" >>

\* The moves of the per-frame state machine
StageMoves ==
    { << "Capturing", "Detecting" >>, << "Capturing", "Done" >>,
      << "Detecting", "Rectifying" >>, << "Detecting", "Done" >>,
      << "Rectifying", "Recognizing" >>, << "Rectifying", "Done" >>,
      << "Recognizing", "Done" >> }

\* C8: within a frame loop() only moves along Capturing, Detecting,
\* Rectifying, Recognizing, Done and the early exits to Done; the stages are
\* called in the order detectPlate, detectPolygon, recognizeCharacters, each
\* at most once a frame, and a Recognized frame has been through all three.
C8_StageOrder ==
    /\ [][ (pc' # pc /\ pc # "Done") => << pc, pc' >> \in StageMoves ]_vars
    /\ [][ pc = "Done" => pc' \in { "Done", "Capturing" } ]_vars
    /\ [](Len(calls) <= Len(Stages) /\ calls = SubSeq(Stages, 1, Len(calls)))
    /\ [](outcome = "Recognized" => calls = Stages)

C8_Witness ==
    /\ pc = "Done"
    /\ outcome = "Recognized"
    /\ calls = Stages

\* C9: a corner confidence below rectificationThreshold does not fail the
\* frame: the polygon is the four corners of plate_box and the iteration goes
\* on to recognition.
C9_LowCornerConfidenceFallsBack ==
    (Contains(calls, "detectPolygon") /\ corner_conf < rectificationThreshold) =>
        /\ plate_polygon.x = << plate_box.x1, plate_box.x2, plate_box.x2, plate_box.x1 >>
        /\ plate_polygon.y = << plate_box.y1, plate_box.y1, plate_box.y2, plate_box.y2 >>
        /\ \/ pc = "Recognizing"
           \/ pc = "Done" /\ outcome = "Recognized" /\ Contains(calls, "recognizeCharacters")

C9_Witness ==
    /\ pc = "Recognizing"
    /\ corner_conf = 20
    /\ plate_box = detectPlate(fb, 95)
    /\ plate_polygon.x[1] = plate_box.x1
    /\ plate_polygon.y[3] = plate_box.y2

C16_NoFrameNoStageNoRelease ==
    outcome = "NoFrame" =>
        /\ pc = "Done"
        /\ fb = NULL
        /\ calls = << >>
        /\ returns = 0
        /\ reports = << CaptureFailedReport >>
        /\ iterations < MaxFrames => ENABLED NextIteration

C16_Witness ==
    /\ pc = "Done"
    /\ outcome = "NoFrame"
    /\ camera_ok
    /\ lent = 0
    /\ iterations = 1
    /\ acquired = 1

\* C17: frames are processed one at a time: the driver never has more than
\* one frame handed out, the frame handed out is the one of the running
\* iteration and only until it is returned, and loop() stands at
\* esp_camera_fb_get only with no frame held.
C17_OneFrameAtATime ==
    /\ lent <= 1
    /\ lent = (IF fb # NULL /\ returns = 0 THEN 1 ELSE 0)
    /\ pc = "Capturing" => lent = 0

C17_Witness ==
    /\ pc = "Detecting"
    /\ lent = 1
    /\ acquired = 3
    /\ fb.id = 3

WellFormedBox(box, width, height) ==
    /\ box.x1 < box.x2
    /\ box.y1 < box.y2
    /\ 0 <= box.x1 /\ box.x2 <= width * 10
    /\ 0 <= box.y1 /\ box.y2 <= height * 10
    /\ 0 <= box.confidence /\ box.confidence <= 100

\* frame sizes beyond the two the camera is configured for: the smallest
\* frame, an odd one, and UXGA
BoxFrameSizes == FrameSizes \cup { <<1, 1>>, <<3, 5>>, <<1600, 1200>> }

\* C21: every BoundingBox the detection stage produces for a frame of
\* positive width and height has x1 < x2 and y1 < y2, lies within the frame
\* and has a confidence within [0, 1]: the box loop() holds once detectPlate
\* has been called, and the box of every other frame size.
C21_BoxWithinFrame ==
    /\ Contains(calls, "detectPlate") =>
          /\ fb.width > 0 /\ fb.height > 0
          /\ WellFormedBox(plate_box, fb.width, fb.height)
    /\ \A size \in BoxFrameSizes, conf \in DetectionConfidence :
          WellFormedBox(detectPlate(Frame(1, size), conf), size[1], size[2])

C21_Witness ==
    /\ pc = "Rectifying"
    /\ fb.width = 160 /\ fb.height = 120
    /\ plate_box = [x1 |-> 480, y1 |-> 480, x2 |-> 1120, y2 |-> 720,
                    confidence |-> 50]

\* twice the signed area of the polygon, positive when the corners run
\* clockwise on the image (y grows downwards)
SignedArea2(poly) ==
    LET nxt(k) == (k % 4) + 1
        term(k) == poly.x[k] * poly.y[nxt(k)] - poly.x[nxt(k)] * poly.y[k]
    IN  term(1) + term(2) + term(3) + term(4)

\* C22: the polygon made from a box with x1 < x2 and y1 < y2 lists the four
\* corners clockwise from the top-left, (x1,y1), (x2,y1), (x2,y2), (x1,y2), in
\* the coordinates of the frame: the first corner is the one nearest the
\* origin, the turn is clockwise, and every corner lies in the frame.
C22_CornersClockwiseFromTopLeft ==
    (Contains(calls, "detectPolygon")
        /\ plate_box.x1 < plate_box.x2 /\ plate_box.y1 < plate_box.y2) =>
            /\ \A k \in 1..4 :
                  << plate_polygon.x[k], plate_polygon.y[k] >> =
                      << << plate_box.x1, plate_box.y1 >>, << plate_box.x2, plate_box.y1 >>,
                         << plate_box.x2, plate_box.y2 >>, << plate_box.x1, plate_box.y2 >> >>[k]
            /\ \A k \in 2..4 :
                  /\ plate_polygon.x[1] <= plate_polygon.x[k]
                  /\ plate_polygon.y[1] <= plate_polygon.y[k]
            /\ SignedArea2(plate_polygon) > 0
            /\ \A k \in 1..4 :
                  /\ 0 <= plate_polygon.x[k] /\ plate_polygon.x[k] <= fb.width * 10
                  /\ 0 <= plate_polygon.y[k] /\ plate_polygon.y[k] <= fb.height * 10

C22_Witness ==
    /\ Contains(calls, "detectPolygon")
    /\ fb.width = 320 /\ fb.height = 240
    /\ plate_polygon = [x |-> << 960, 2240, 2240, 960 >>,
                        y |-> << 960, 960, 1440, 1440 >>]

\* C29: the frame is never used after it is released: within an iteration
\* esp_camera_fb_return is the last thing done with the frame, no stage call
\* and no read of its fields follows it, and once the frame is returned the
\* iteration is over.
C29_NoUseAfterRelease ==
    /\ \A k \in DOMAIN events : events[k] = "return" => k = Len(events)
    /\ returns > 0 => (pc = "Done" /\ Contains(events, "return"))
    /\ events # << >> => (fb # NULL /\ events[1] = "read")
    /\ \A k \in DOMAIN calls : Contains(events, calls[k])

C29_Witness ==
    /\ pc = "Done"
    /\ returns = 1
    /\ events = << "read", "detectPlate", "detectPolygon", "recognizeCharacters",
                   "return" >>

\* C30: every acquired frame is eventually released: an iteration that holds
\* a frame reaches Done in finitely many steps with the frame given back by
\* one esp_camera_fb_return, so that the driver's fb_count = 1 buffer is free
\* again whenever loop() asks for the next frame.
C30_AcquiredFrameIsReleased ==
    /\ (lent > 0) ~> (pc = "Done" /\ lent = 0 /\ returns = 1
                        /\ events[Len(events)] = "return")
    /\ [](lent <= fb_count)
    /\ [](pc = "Capturing" => lent < fb_count)

C30_Witness ==
    /\ pc = "Done"
    /\ acquired = 2
    /\ lent = 0
    /\ outcome = "NotFound"
    /\ events = << "read", "detectPlate", "return" >>

\* ------------------------------------------------------------------------
\* Properties of setup()
\* ------------------------------------------------------------------------

\* C12: a model asset that declares an unsupported schema version is never
\* loaded: for each of the three models, its interpreter is not constructed
\* on the arena and setup() does not come out Ready.
C12_UnsupportedVersionNeverLoaded ==
    \A m \in Models :
        version[m] # TFLITE_SCHEMA_VERSION =>
            /\ interpreter[m] = "null"
            /\ setup_result # "Ready"

\* C13: once setup() has failed on a model load, loop() acquires no frame and
\* runs no stage.
C13_ModelLoadFailureHalts ==
    setup_result = "ModelLoadFailed" =>
        /\ acquired = 0
        /\ fb = NULL
        /\ calls = << >>

\* the interpreters that hold tensors allocated in tensor_arena
ArenaOwners == { m \in Models : interpreter[m] = "allocated" }

\* C14: at every instant at most one interpreter holds tensors allocated in
\* tensor_arena.
C14_ArenaHasOneOwner == Cardinality(ArenaOwners) <= 1

\* the models in the order setup() loads them
LoadOrder == << "detection", "polygon", "ocr" >>

\* the steps of setup() in order, and the return every step can take
SetupMoves ==
    { << "CameraInit", "LoadDetection" >>, << "LoadDetection", "LoadPolygon" >>,
      << "LoadPolygon", "LoadOcr" >>,
      << "CameraInit", "Returned" >>, << "LoadDetection", "Returned" >>,
      << "LoadPolygon", "Returned" >>, << "LoadOcr", "Returned" >> }

\* model LoadOrder[k] is loaded: interpreter allocated, tensor pointers set
Loaded(k) == interpreter[LoadOrder[k]] = "allocated" /\ tensors[LoadOrder[k]]

\* model LoadOrder[k] is untouched: interpreter and tensor pointers null
Untouched(k) == interpreter[LoadOrder[k]] = "null" /\ ~ tensors[LoadOrder[k]]

\* C28: startup is a gated sequence, camera, detection model (schema check,
\* allocation), polygon model, OCR model: a model is touched only when the
\* camera and every model before it succeeded, a failure at a step ends
\* setup() there with every later model's interpreter and tensor pointers
\* null, and "All Models Ready" is reached only when every step succeeded.
C28_StartupIsGated ==
    /\ [][ spc' # spc => << spc, spc' >> \in SetupMoves ]_vars
    /\ [](\A k \in 1..3 :
            /\ tensors[LoadOrder[k]] => interpreter[LoadOrder[k]] = "allocated"
            /\ ~ Untouched(k) =>
                  /\ camera_ok
                  /\ version["detection"] = TFLITE_SCHEMA_VERSION
                  /\ \A j \in 1..(k - 1) : Loaded(j)
            /\ (~ Loaded(k) /\ spc = "Returned") =>
                  /\ setup_result \in { "CameraFailed", "ModelLoadFailed" }
                  /\ \A j \in (k + 1)..3 : Untouched(j))
    /\ [](setup_result = "CameraFailed" => (~ camera_ok /\ \A k \in 1..3 : Untouched(k)))
    /\ [](setup_result = "Ready" =>
            /\ spc = "Returned"
            /\ camera_ok
            /\ \A k \in 1..3 : Loaded(k))
    /\ []((setup_result # "Running") => spc = "Returned")

C28_Witness ==
    /\ spc = "Returned"
    /\ setup_result = "ModelLoadFailed"
    /\ camera_ok
    /\ interpreter = [m \in Models |->
                         IF m = "detection" THEN "allocated"
                         ELSE IF m = "polygon" THEN "constructed" ELSE "null"]
    /\ tensors = [m \in Models |-> m = "detection"]

\* ------------------------------------------------------------------------
\* Properties of ctcBeamSearchDecode
\* ------------------------------------------------------------------------

\* the largest probability in row t (from 0) of the grid
RowMax(t) ==
    LET row == { predictions[t * num_classes + k + 1] : k \in 0..(num_classes - 1) }
    IN  CHOOSE v \in row : \A w \in row : w <= v

\* The label of timestep t (from 0): the class of the largest probability in
\* row t of the grid, the lowest such class when several share it.
Label(t) ==
    LET m == RowMax(t)
    IN  CHOOSE c \in 0..(num_classes - 1) :
            /\ predictions[t * num_classes + c + 1] = m
            /\ \A k \in 0..(c - 1) : predictions[t * num_classes + k + 1] # m

\* the label sequence of the grid, timestep t - 1 at position t
Labels == [t \in 1..seq_len |-> Label(t - 1)]

\* timestep t (from 1) emits: its label is not blank and differs from the
\* label of the timestep before it; the first timestep has none before it
Emitting(labels, t) ==
    /\ labels[t] # 0
    /\ (t = 1 \/ labels[t] # labels[t - 1])

\* the greedy collapse of the first t labels: the characters of the emitting
\* timesteps, in timestep order
RECURSIVE Collapse(_, _)
Collapse(labels, t) ==
    IF t = 0
        THEN << >>
        ELSE IF Emitting(labels, t)
                THEN Append(Collapse(labels, t - 1), CHARACTERS[labels[t]])
                ELSE Collapse(labels, t - 1)

\* C3: for a grid over at most NUM_CHARACTERS + 1 classes the decoder returns
\* the greedy collapse of the argmax label sequence, and after i passes of its
\* loop holds the collapse of the first i labels; the labels
\* 0,1,1,0,2,2,0 give the table's first two characters and the same pattern
\* over the classes of A and B gives "AB".
C3_DecodeIsGreedyCollapse ==
    (dpc \in { "Loop", "Returned" } /\ num_classes <= NUM_CHARACTERS + 1) =>
        /\ result = Collapse(Labels, i)
        /\ dpc = "Returned" => result = Collapse(Labels, seq_len)
        /\ (dpc = "Returned" /\ Labels = << 0, 11, 11, 0, 12, 12, 0 >>) =>
                result = << "A", "B" >>
        /\ (dpc = "Returned" /\ Labels = << 0, 1, 1, 0, 2, 2, 0 >>) =>
                result = << CHARACTERS[1], CHARACTERS[2] >>

C3_Witness ==
    /\ dpc = "Returned"
    /\ num_classes = NUM_CHARACTERS + 1
    /\ Labels = << 0, 11, 11, 0, 12, 12, 0 >>
    /\ result = << "A", "B" >>

\* C4: a grid whose every timestep has the blank class as its argmax decodes
\* to the empty string, whatever its number of timesteps.
C4_AllBlankDecodesEmpty ==
    (dpc = "Returned" /\ \A t \in 1..seq_len : Label(t - 1) = 0) => result = << >>

C4_Witness ==
    /\ dpc = "Returned"
    /\ seq_len = MaxSeqLen
    /\ num_classes = NUM_CHARACTERS + 1
    /\ \A t \in 1..seq_len : Label(t - 1) = 0
    /\ predictions[2] = predictions[1]
    /\ result = << >>

\* the timesteps that start a run of one non-blank class
RunStarts(labels) == { t \in DOMAIN labels : Emitting(labels, t) }

\* C5: every run of consecutive timesteps with the same non-blank class adds
\* exactly one character: the output has as many characters as the labels
\* have such runs, a grid that is one run decodes to the one character of its
\* class, and so 1,1,1 gives the table's first character and the class of A
\* three times gives "A".
C5_RunGivesOneCharacter ==
    (dpc = "Returned" /\ num_classes <= NUM_CHARACTERS + 1) =>
        /\ Len(result) = Cardinality(RunStarts(Labels))
        /\ (seq_len >= 1 /\ Label(0) # 0 /\ \A t \in 1..seq_len : Label(t - 1) = Label(0)) =>
                result = << CHARACTERS[Label(0)] >>
        /\ Labels = << 11, 11, 11 >> => result = << "A" >>

C5_Witness ==
    /\ dpc = "Returned"
    /\ Labels = << 11, 11, 11 >>
    /\ result = << "A" >>

\* C6: a blank timestep between two timesteps of the same non-blank class
\* keeps them apart: the pass over a non-blank timestep that follows a blank
\* one always appends its character, so c,0,c decodes to the character of c
\* twice and A,blank,A to "AA".
C6_BlankSeparatesRepeats ==
    /\ [][ (dpc = "Loop" /\ i >= 1 /\ i < seq_len /\ num_classes <= NUM_CHARACTERS + 1
              /\ Label(i - 1) = 0 /\ Label(i) # 0)
           => result' = Append(result, CHARACTERS[Label(i)]) ]_vars
    /\ [] ((dpc = "Returned" /\ seq_len = 3 /\ num_classes <= NUM_CHARACTERS + 1
              /\ Label(0) # 0 /\ Label(1) = 0 /\ Label(2) = Label(0))
           => result = << CHARACTERS[Label(0)], CHARACTERS[Label(0)] >>)
    /\ [] ((dpc = "Returned" /\ Labels = << 11, 0, 11 >>) => result = << "A", "A" >>)

C6_Witness ==
    /\ dpc = "Returned"
    /\ Labels = << 11, 0, 11 >>
    /\ result = << "A", "A" >>

\* the class of a character of the table: its index + 1
ClassOf(ch) == CHOOSE c \in 1..NUM_CHARACTERS : CHARACTERS[c] = ch

\* s has no two adjacent equal characters
Collapsed(s) == \A t \in 2..Len(s) : s[t] # s[t - 1]

\* the grid has one timestep for each character of s, labelled with its class
GridSpells(s) ==
    /\ seq_len = Len(s)
    /\ \A t \in 1..seq_len : Label(t - 1) = ClassOf(s[t])

\* C7: decoding the grid that has one timestep for each character of a string
\* without adjacent equal characters returns that string: when no label is
\* blank and no two neighbours are equal, the output spells the labels, and
\* the grid that spells the output is the grid that was decoded.
C7_CollapsedInputDecodesToItself ==
    (dpc = "Returned" /\ num_classes <= NUM_CHARACTERS + 1
        /\ (\A t \in 1..seq_len : Label(t - 1) # 0)
        /\ (\A t \in 2..seq_len : Label(t - 1) # Label(t - 2))) =>
            /\ result = [t \in 1..seq_len |-> CHARACTERS[Label(t - 1)]]
            /\ Collapsed(result)
            /\ GridSpells(result)

C7_Witness ==
    /\ dpc = "Returned"
    /\ seq_len = 3
    /\ result = << "A", "Z", "A" >>
    /\ GridSpells(<< "A", "Z", "A" >>)

\* the classes that share the largest probability of timestep t (from 0)
Winners(t) ==
    LET m == RowMax(t)
    IN  { c \in 0..(num_classes - 1) : predictions[t * num_classes + c + 1] = m }

\* C25: the argmax breaks ties toward the lowest class index: after each
\* pass the class selected is the smallest of those sharing the maximum of
\* the timestep, and a timestep where blank shares the maximum is blank and
\* emits nothing.
C25_TiesGoToLowestClass ==
    /\ []((dpc \in { "Loop", "Returned" } /\ i > 0) =>
            /\ prev_class \in Winners(i - 1)
            /\ \A c \in Winners(i - 1) : prev_class <= c)
    /\ [][ (dpc = "Loop" /\ i' = i + 1 /\ 0 \in Winners(i)) =>
                (result' = result /\ prev_class' = 0) ]_vars

C25_Witness ==
    /\ dpc = "Returned"
    /\ seq_len = 2
    /\ num_classes = 3
    /\ Winners(0) = { 1, 2 }
    /\ Winners(1) = { 0, 1 }
    /\ result = << "0" >>

\* the characters of the table
Alphabet == { CHARACTERS[k] : k \in 1..NUM_CHARACTERS }

\* C26: for every grid, also one with more classes than the table has
\* characters + 1, the decoder reads CHARACTERS only inside the table: a
\* pass that appends a character appends CHARACTERS[max_class - 1] with
\* max_class - 1 in 0..NUM_CHARACTERS - 1; a winning class beyond the table
\* appends nothing and still becomes prev_class; every character of the
\* output is of the table, and the output is no longer than the timesteps.
C26_NeverReadsOutsideTable ==
    /\ [](dpc \in { "Loop", "Returned" } =>
            /\ \A k \in DOMAIN result : result[k] \in Alphabet
            /\ Len(result) <= i
            /\ i <= seq_len)
    /\ [][ (dpc = "Loop" /\ i' = i + 1) =>
              /\ result' # result =>
                    /\ prev_class' - 1 \in 0..(NUM_CHARACTERS - 1)
                    /\ result' = Append(result, CHARACTERS[prev_class'])
              /\ Label(i) > NUM_CHARACTERS =>
                    (result' = result /\ prev_class' = Label(i)) ]_vars

C26_Witness ==
    /\ dpc = "Returned"
    /\ num_classes = NUM_CHARACTERS + 2
    /\ seq_len = 3
    /\ Label(0) = NUM_CHARACTERS
    /\ Label(1) = NUM_CHARACTERS + 1
    /\ Label(2) = NUM_CHARACTERS
    /\ result = << "Z", "Z" >>

\* the calls that have returned: the earlier ones and, once it has returned,
\* the running one
ReturnedCalls ==
    { history[k] : k \in DOMAIN history } \cup
        IF dpc = "Returned"
            THEN { [predictions |-> predictions, seq_len |-> seq_len,
                    num_classes |-> num_classes, text |-> DecodeReturnValue.text] }
            ELSE { }

\* C23: the decoder is a pure function of its grid: two calls with the same
\* grid return the same string whatever calls were made in between, and each
\* call starts its loop with an empty result and no previous class.
C23_SameGridSameText ==
    /\ \A a \in ReturnedCalls, b \in ReturnedCalls :
          (a.predictions = b.predictions /\ a.seq_len = b.seq_len
              /\ a.num_classes = b.num_classes) => a.text = b.text
    /\ (dpc = "Loop" /\ i = 0) => (prev_class = -1 /\ result = << >>)

C23_Witness ==
    /\ dpc = "Returned"
    /\ Len(history) = 2
    /\ history[1].predictions = predictions
    /\ history[2].predictions # predictions
    /\ history[2].text = << "0", "0" >>
    /\ history[1].text = << "0" >>
    /\ result = << "0" >>

\* the winning probabilities of the emitting timesteps among the first t, in
\* timestep order
RECURSIVE EmittedProbs(_)
EmittedProbs(t) ==
    IF t = 0
        THEN << >>
        ELSE IF Emitting(Labels, t) /\ Label(t - 1) - 1 < NUM_CHARACTERS
                THEN Append(EmittedProbs(t - 1), RowMax(t - 1))
                ELSE EmittedProbs(t - 1)

\* C20: decoding returns, together with the text, one confidence for each
\* emitted character, the winning class's probability at the timestep that
\* emitted it, so that there are as many confidences as characters.
C20_OneConfidencePerCharacter ==
    dpc = "Returned" =>
        /\ "confidences" \in DOMAIN DecodeReturnValue
        /\ DecodeReturnValue.confidences = EmittedProbs(seq_len)
        /\ Len(DecodeReturnValue.confidences) = Len(DecodeReturnValue.text)

\* ------------------------------------------------------------------------
\* Properties of preprocessImage
\* ------------------------------------------------------------------------

\* the indices of an image of OCR_INPUT_WIDTH x OCR_INPUT_HEIGHT elements
OutputIndices == 0..(OCR_INPUT_WIDTH * OCR_INPUT_HEIGHT - 1)

\* the indices of input_buffer written so far
WrittenSet == { written[n] : n \in DOMAIN written }

\* C18: for every source frame of positive width and height the resampling
\* writes exactly the OCR_INPUT_WIDTH x OCR_INPUT_HEIGHT elements of the
\* output: while it runs no index is written twice and none lies outside the
\* image, row y has written the first y rows, and at the return every index
\* of the image has been written exactly once.
C18_OutputWrittenExactlyOnce ==
    /\ ppc \in {"Loop", "Returned"} =>
          /\ src.width > 0 /\ src.height > 0
          /\ WrittenSet \subseteq OutputIndices
          /\ Cardinality(WrittenSet) = Len(written)
          /\ Len(written) = py * OCR_INPUT_WIDTH
          /\ DOMAIN input_buffer = WrittenSet
    /\ ppc = "Returned" =>
          /\ WrittenSet = OutputIndices
          /\ Len(written) = OCR_INPUT_WIDTH * OCR_INPUT_HEIGHT

C18_Witness ==
    /\ ppc = "Returned"
    /\ src.width = 3 /\ src.height = 5 /\ src.len = 15
    /\ Len(written) = OCR_INPUT_WIDTH * OCR_INPUT_HEIGHT
    /\ input_buffer[OCR_INPUT_WIDTH * OCR_INPUT_HEIGHT - 1] = SrcData(src, 14)

\* C19: when the source position of an output element lies outside the
\* valid bytes of the frame, the element takes the value of the nearest
\* valid source byte, the last one, and is never the zero sample.
C19_OutOfRangeTakesNearestPixel ==
    ppc = "Returned" =>
        \A y \in 0..(OCR_INPUT_HEIGHT - 1), x \in 0..(OCR_INPUT_WIDTH - 1) :
            (src.len > 0 /\ SrcIdx(src, x, y) >= src.len) =>
                /\ input_buffer[OutIdx(x, y)] # 0
                /\ input_buffer[OutIdx(x, y)] = SrcData(src, src.len - 1)

\* C27: for every output pixel (x, y) of the image and every frame of
\* positive width and height the source coordinates lie in the frame,
\* 0 <= src_x < width and 0 <= src_y < height, so src_idx < width * height;
\* an element is zero-filled only when the frame has fewer bytes than
\* width * height, and a frame with all its bytes is copied sample by sample.
C27_SourceCoordinatesInFrame ==
    ppc = "Returned" =>
        \A y \in 0..(OCR_INPUT_HEIGHT - 1), x \in 0..(OCR_INPUT_WIDTH - 1) :
            /\ 0 <= SrcX(src, x) /\ SrcX(src, x) < src.width
            /\ 0 <= SrcY(src, y) /\ SrcY(src, y) < src.height
            /\ SrcIdx(src, x, y) < src.width * src.height
            /\ input_buffer[OutIdx(x, y)] = 0 =>
                  (src.len < src.width * src.height /\ SrcIdx(src, x, y) >= src.len)
            /\ src.len >= src.width * src.height =>
                  input_buffer[OutIdx(x, y)] = SrcData(src, SrcIdx(src, x, y))

C27_Witness ==
    /\ ppc = "Returned"
    /\ src.width = 3 /\ src.height = 5 /\ src.len = 7
    /\ SrcIdx(src, OCR_INPUT_WIDTH - 1, OCR_INPUT_HEIGHT - 1) = 14
    /\ input_buffer[OutIdx(OCR_INPUT_WIDTH - 1, OCR_INPUT_HEIGHT - 1)] = 0
    /\ input_buffer[0] = SrcData(src, 0)

====
